---- MODULE Spec2Model ----
(***************************************************************************)
(* A model of the fera graph library: the static graph and its builder     *)
(* (src/src/static_.rs), the Basic capability interface                    *)
(* (src/src/graph.rs), subgraph views (src/src/subgraph.rs) and the        *)
(* union-find over a graph's vertices (src/src/unionfind.rs).              *)
(*                                                                         *)
(* Vectors are sequences; a Rust index i is position i + 1 here.           *)
(* StaticGraphGeneric<V, E> is generic in the widths of its vertex and     *)
(* edge identifiers (impl_num! is instantiated at 8, 16, 32 and 64 bits).  *)
(* The model instantiates the same macro at the narrow widths VWidths and  *)
(* EWidths, so that the capacity limits of a width are reachable.          *)
(***************************************************************************)
EXTENDS Integers, Sequences, FiniteSets, TLC

VARIABLES
    phase,      \* "start" | "building" | "final" | "failed": life of the builder
    V_bits,     \* width of V, the type parameter of the vertex identifiers
    E_bits,     \* width of E, the type parameter of the edge identifiers
    g,          \* StaticGraphGeneric { num_vertices, endvertices, inc }
    capacity,   \* capacity of g.endvertices (Vec::with_capacity)
    hint,       \* history: the num_edges argument of Builder::new
    calls,      \* history: the (u, v) of every Builder::add_edge call so far
    order,      \* the (vertices, edges) vectors finalize_ returns with the graph
    out,        \* what the last call handed to its caller
    sub,        \* Subgraph { vertices, edges, inc } and how it was built
    uf,         \* UnionFind: "none" | "ok" | "panicked", parent and rank maps
    pairs,      \* history: the pairs passed to union since the last reset
    props       \* the vertex and the edge property map made so far, and the
                \* maps as they were before the last write

vars == <<phase, V_bits, E_bits, g, capacity, hint, calls, order, out, sub, uf, pairs, props>>

(***************************************************************************)
(* Bounds of the model.                                                    *)
(***************************************************************************)
MaxN == 2           \* Builder::new is called with num_vertices in 0..MaxN
MaxEdges == 3       \* at most MaxEdges calls of add_edge
MaxHint == 1        \* Builder::new is called with num_edges (the hint) in 0..MaxHint
MaxSubLen == 2      \* length of the sequences given to the subgraph constructors
MaxSubEdges == 2    \* edges of the base graphs subgraphs are taken of
MaxUFN == 3         \* vertices of the graphs a union-find is made of
MaxUnions == 3      \* distinct pairs passed to union between two resets
MaxWrites == 2      \* writes to an edge property map

VWidths == {1, 2, 3}
EWidths == {2, 4}

(***************************************************************************)
(* impl_num!: the numeric identifier types.                                *)
(***************************************************************************)
to_usize(x) == x

from_usize(bits, v) == v % (2 ^ bits)

max(bits) == (2 ^ bits) - 1

\* is_valid with the bound taken as inclusive
is_valid_inclusive(bits, v) == v <= max(bits)

\* is_valid that accepts every count
is_valid_unchecked(bits, v) == TRUE

is_valid(bits, v) == v < max(bits)

\* OptionItem::new_none: the sentinel of a width
new_none(bits) == max(bits)

\* OptionItem::to_option: none for the sentinel
to_option(bits, x) ==
    IF x = new_none(bits) THEN [some |-> FALSE, val |-> 0] ELSE [some |-> TRUE, val |-> x]

\* x ^ 1 on unsigned integers
Xor1(x) == IF x % 2 = 0 THEN x + 1 ELSE x - 1

\* Vec indexing, 0-based
At(s, i) == s[i + 1]

(***************************************************************************)
(* StaticEdge.                                                             *)
(***************************************************************************)
\* the forward identifier of the following canonical edge
StaticEdge_new_off_by_one(bits, e) == from_usize(bits, 2 * (e + 1) + 1)

StaticEdge_new(bits, e) == from_usize(bits, 2 * e + 1)

StaticEdge_new_reverse(bits, e) == from_usize(bits, 2 * e)

\* reverse as the next identifier instead of the flipped low bit
StaticEdge_reverse_next(bits, e) == from_usize(bits, to_usize(e) + 1)

StaticEdge_reverse(bits, e) == from_usize(bits, Xor1(to_usize(e)))

to_index(e) == to_usize(e) \div 2

\* PartialEq for StaticEdge
StaticEdge_eq(e1, e2) == to_index(e1) = to_index(e2)

(***************************************************************************)
(* StaticGraphGeneric.                                                     *)
(***************************************************************************)
EmptyGraph == [num_vertices |-> 0, endvertices |-> <<>>, inc |-> <<>>]

\* add_edge with the two identifiers pushed to the wrong lists
add_edge_swapped(gr, bits, u, v) ==
    LET ev == Append(Append(gr.endvertices, u), v)
        e == (Len(ev) - 2) \div 2
        inc1 == [gr.inc EXCEPT ![to_usize(u) + 1] = Append(@, StaticEdge_new_reverse(bits, e))]
        inc2 == [inc1 EXCEPT ![to_usize(v) + 1] = Append(@, StaticEdge_new(bits, e))]
    IN [gr EXCEPT !.endvertices = ev, !.inc = inc2]

add_edge(gr, bits, u, v) ==
    LET ev == Append(Append(gr.endvertices, u), v)
        e == (Len(ev) - 2) \div 2
        inc1 == [gr.inc EXCEPT ![to_usize(u) + 1] = Append(@, StaticEdge_new(bits, e))]
        inc2 == [inc1 EXCEPT ![to_usize(v) + 1] = Append(@, StaticEdge_new_reverse(bits, e))]
    IN [gr EXCEPT !.endvertices = ev, !.inc = inc2]

num_vertices(gr) == gr.num_vertices

\* V::range(0, num_vertices)
vertices(gr) == [i \in 1..gr.num_vertices |-> i - 1]

source(gr, e) == At(gr.endvertices, Xor1(to_usize(e)))

target(gr, e) == At(gr.endvertices, to_usize(e))

num_edges(gr) == Len(gr.endvertices) \div 2

edges(gr, bits) == [i \in 1..num_edges(gr) |-> StaticEdge_new(bits, i - 1)]

degree(gr, v) == Len(At(gr.inc, to_usize(v)))

inc_edges(gr, v) == At(gr.inc, to_usize(v))

\* Vec growth on push: amortized doubling
Grow(cap, len) == IF len <= cap THEN cap ELSE IF 2 * cap >= len THEN 2 * cap ELSE len

(***************************************************************************)
(* Basic (graph.rs): endvertices and opposite.                             *)
(***************************************************************************)
endvertices(gr, e) == <<source(gr, e), target(gr, e)>>

\* opposite that answers the target at both endpoints
opposite_target(gr, u, e) ==
    LET s == endvertices(gr, e)[1]
        t == endvertices(gr, e)[2]
    IN IF u = s THEN [err |-> "none", val |-> t]
       ELSE IF u = t THEN [err |-> "none", val |-> t]
       ELSE [err |-> "InvalidArgument", val |-> -1]

opposite(gr, u, e) ==
    LET s == endvertices(gr, e)[1]
        t == endvertices(gr, e)[2]
    IN IF u = s THEN [err |-> "none", val |-> t]
       ELSE IF u = t THEN [err |-> "none", val |-> s]
       ELSE [err |-> "InvalidArgument", val |-> -1]

\* neighbors that maps source over the incident edges
neighbors_source(gr, v) ==
    [i \in 1..Len(inc_edges(gr, v)) |-> source(gr, inc_edges(gr, v)[i])]

\* Adj::neighbors: inc_edges(v) mapped through target
neighbors(gr, v) ==
    [i \in 1..Len(inc_edges(gr, v)) |-> target(gr, inc_edges(gr, v)[i])]

(***************************************************************************)
(* Subgraph (subgraph.rs). A subgraph refers to its base graph g; its inc  *)
(* is a vertex property map of the base graph.                             *)
(***************************************************************************)
\* vertex_prop(value): one slot per vertex of the graph, indexed by to_usize
vertex_prop(gr, value) == [i \in 1..num_vertices(gr) |-> value]

\* the payloads T of the property maps of the model
Values == {0, 1, 2}

\* an edge map with one slot per vertex
edge_prop_per_vertex(gr, value) == [i \in 1..num_vertices(gr) |-> value]

\* edge_prop(value): one slot per edge of the graph
edge_prop(gr, value) == [i \in 1..num_edges(gr) |-> value]

\* a projection by the raw identifier
edge_index_raw(e) == to_usize(e)

\* the projection edge_prop hands to VecProp::new
edge_index(e) == to_index(e)

\* VecProp: reading slot i of the values; past the end it panics
VecProp_get(values, i) ==
    IF i < Len(values) THEN [err |-> "none", val |-> At(values, i)]
    ELSE [err |-> "IndexOutOfBounds", val |-> -1]

\* VecProp: writing x to slot i of the values; past the end it panics
VecProp_set(values, i, x) ==
    IF i < Len(values) THEN [err |-> "none", values |-> [values EXCEPT ![i + 1] = x]]
    ELSE [err |-> "IndexOutOfBounds", values |-> values]

\* contains that finds every vertex
contains_vertex_always(vs, v) == TRUE

\* Vec::contains, with the equality of the element type
contains_vertex(vs, v) == \E i \in 1..Len(vs) : vs[i] = v

\* contains that compares the raw identifiers
contains_edge_raw(es, e) == \E i \in 1..Len(es) : es[i] = e

contains_edge(es, e) == \E i \in 1..Len(es) : StaticEdge_eq(es[i], e)

\* ends as (target, source)
ends_swapped(gr, e) == <<target(gr, e), source(gr, e)>>

\* Subgraph::ends delegates to the base graph: (source, target)
ends(gr, e) == endvertices(gr, e)

\* push at the front of the list
push_front(prop, v, e) == [prop EXCEPT ![to_usize(v) + 1] = <<e>> \o @]

\* prop[v].push(e)
push(prop, v, e) == [prop EXCEPT ![to_usize(v) + 1] = Append(@, e)]

Subgraph(kind, vs, es, inc, input) ==
    [kind |-> kind, vertices |-> vs, edges |-> es, inc |-> inc, input |-> input]

\* the loop of spanning_subgraph that pushes e itself on both sides
RECURSIVE spanning_loop_no_reverse(_, _, _, _, _)
spanning_loop_no_reverse(gr, bits, es, i, inc) ==
    IF i > Len(es) THEN inc
    ELSE LET e == es[i]
             u == ends(gr, e)[1]
             v == ends(gr, e)[2]
         IN spanning_loop_no_reverse(gr, bits, es, i + 1, push(push(inc, u, e), v, e))

\* the loop of spanning_subgraph over edges[i..]
RECURSIVE spanning_loop(_, _, _, _, _)
spanning_loop(gr, bits, es, i, inc) ==
    IF i > Len(es) THEN inc
    ELSE LET e == es[i]
             u == ends(gr, e)[1]
             v == ends(gr, e)[2]
             inc1 == push(inc, u, e)
             inc2 == push(inc1, v, StaticEdge_reverse(bits, e))
         IN spanning_loop(gr, bits, es, i + 1, inc2)

spanning_subgraph(gr, bits, es) ==
    Subgraph("spanning", vertices(gr), es,
             spanning_loop(gr, bits, es, 1, vertex_prop(gr, <<>>)), es)

\* the loop of edge_induced_subgraph over edges[i..]; st = (vin, vertices, inc)
RECURSIVE edge_induced_loop(_, _, _, _, _)
edge_induced_loop(gr, bits, es, i, st) ==
    IF i > Len(es) THEN st
    ELSE LET e == es[i]
             u == ends(gr, e)[1]
             v == ends(gr, e)[2]
             vin1 == IF ~At(st.vin, u) THEN [st.vin EXCEPT ![u + 1] = TRUE] ELSE st.vin
             vs1 == IF ~At(st.vin, u) THEN Append(st.vertices, u) ELSE st.vertices
             vin2 == IF ~At(vin1, v) THEN [vin1 EXCEPT ![v + 1] = TRUE] ELSE vin1
             vs2 == IF ~At(vin1, v) THEN Append(vs1, v) ELSE vs1
             inc1 == push(st.inc, u, e)
             inc2 == push(inc1, v, StaticEdge_reverse(bits, e))
         IN edge_induced_loop(gr, bits, es, i + 1,
                              [vin |-> vin2, vertices |-> vs2, inc |-> inc2])

edge_induced_subgraph(gr, bits, es) ==
    LET st == edge_induced_loop(gr, bits, es, 1,
                  [vin |-> vertex_prop(gr, FALSE), vertices |-> <<>>,
                   inc |-> vertex_prop(gr, <<>>)])
    IN Subgraph("edge_induced", st.vertices, es, st.inc, es)

\* the inner loop of induced_subgraph: the incident edges of u from the j-th;
\* st = (edges, inc)
RECURSIVE induced_inner(_, _, _, _, _)
induced_inner(gr, vs, u, j, st) ==
    IF j > Len(inc_edges(gr, u)) THEN st
    ELSE LET e == inc_edges(gr, u)[j]
             v == target(gr, e)
             st1 == IF contains_vertex(vs, v)
                    THEN [inc |-> push(st.inc, u, e),
                          edges |-> IF ~contains_edge(st.edges, e)
                                    THEN Append(st.edges, e)
                                    ELSE st.edges]
                    ELSE st
         IN induced_inner(gr, vs, u, j + 1, st1)

\* the outer loop of induced_subgraph over vertices[i..]
RECURSIVE induced_outer(_, _, _, _)
induced_outer(gr, vs, i, st) ==
    IF i > Len(vs) THEN st
    ELSE induced_outer(gr, vs, i + 1, induced_inner(gr, vs, vs[i], 1, st))

induced_subgraph(gr, vs) ==
    LET st == induced_outer(gr, vs, 1, [edges |-> <<>>, inc |-> vertex_prop(gr, <<>>)])
    IN Subgraph("induced", vs, st.edges, st.inc, vs)

\* VertexList, EdgeList, WithPair, Incidence for Subgraph
Subgraph_num_vertices(sg) == Len(sg.vertices)

Subgraph_vertices(sg) == sg.vertices

Subgraph_num_edges(sg) == Len(sg.edges)

Subgraph_edges(sg) == sg.edges

Subgraph_source(sg, gr, e) == source(gr, e)

Subgraph_target(sg, gr, e) == target(gr, e)

Subgraph_reverse(sg, bits, e) == StaticEdge_reverse(bits, e)

Subgraph_opposite(sg, gr, u, e) == opposite(gr, u, e)

Subgraph_degree(sg, v) == Len(At(sg.inc, to_usize(v)))

Subgraph_inc_edges(sg, v) == At(sg.inc, to_usize(v))

\* Adjacency::neighbors: the subgraph's inc_edges(v) mapped through the base
\* graph's target
Subgraph_neighbors(sg, gr, v) ==
    [i \in 1..Len(Subgraph_inc_edges(sg, v)) |-> target(gr, Subgraph_inc_edges(sg, v)[i])]

\* a vertex map with one slot per vertex of the subgraph
Subgraph_default_vertex_prop_own(sg, gr, value) ==
    [i \in 1..Subgraph_num_vertices(sg) |-> value]

\* WithVertexProp for Subgraph: self.g().default_vertex_prop(value)
Subgraph_default_vertex_prop(sg, gr, value) == vertex_prop(gr, value)

\* WithEdgeProp for Subgraph: self.g().default_edge_prop(value)
Subgraph_default_edge_prop(sg, gr, value) == edge_prop(gr, value)

\* VertexPropMutNew for Subgraph: new_vertex_prop(g.g(), value)
Subgraph_new_vertex_prop(sg, gr, value) == vertex_prop(gr, value)

\* EdgePropMutNew for Subgraph: new_edge_prop(g.g(), value)
Subgraph_new_edge_prop(sg, gr, value) == edge_prop(gr, value)

(***************************************************************************)
(* Union-find (unionfind.rs) over the vertices of a graph. The inner       *)
(* disjoint-set structure keeps a parent and a rank vertex property map.   *)
(***************************************************************************)
\* inner make_set(v): parent[v] = v, rank[v] = 0
make_set(ds, v) ==
    [ds EXCEPT !.parent[to_usize(v) + 1] = v, !.rank[to_usize(v) + 1] = 0]

\* the root of v: follow the parent pointers
RECURSIVE root(_, _)
root(ds, v) == IF At(ds.parent, v) = v THEN v ELSE root(ds, At(ds.parent, v))

\* the path from v to its root, compressed
RECURSIVE compress(_, _, _)
compress(ds, v, r) ==
    IF At(ds.parent, v) = v THEN ds
    ELSE compress([ds EXCEPT !.parent[v + 1] = r], At(ds.parent, v), r)

\* inner find(v): the root and the structure after path compression
find(ds, v) == [root |-> root(ds, v), ds |-> compress(ds, v, root(ds, v))]

\* inner union(u, v)
inner_union(ds, u, v) ==
    LET fu == find(ds, u)
        fv == find(fu.ds, v)
        ru == fu.root
        rv == fv.root
        d == fv.ds
    IN IF ru = rv THEN d
       ELSE IF At(d.rank, ru) > At(d.rank, rv) THEN [d EXCEPT !.parent[rv + 1] = ru]
       ELSE IF At(d.rank, ru) < At(d.rank, rv) THEN [d EXCEPT !.parent[ru + 1] = rv]
       ELSE [d EXCEPT !.parent[ru + 1] = rv, !.rank[rv + 1] = @ + 1]

\* inner in_same_set(u, v): the answer and the structure after both finds
inner_in_same_set(ds, u, v) ==
    LET fu == find(ds, u)
        fv == find(fu.ds, v)
    IN [val |-> fu.root = fv.root, ds |-> fv.ds]

\* the loop `for v in g.vertices() { make_set(v) }` over vs[i..]
RECURSIVE make_sets(_, _, _)
make_sets(ds, vs, i) ==
    IF i > Len(vs) THEN ds ELSE make_sets(make_set(ds, vs[i]), vs, i + 1)

\* a reset that leaves the last vertex as it is
reset_but_last(ds, gr) ==
    LET vs == vertices(gr)
    IN make_sets(ds, SubSeq(vs, 1, Len(vs) - 1), 1)

\* UnionFind::reset(g)
reset(ds, gr) == make_sets(ds, vertices(gr), 1)

\* UnionFind::union(u, v)
union(ds, u, v) == inner_union(ds, u, v)

\* UnionFind::in_same_set(u, v)
in_same_set(ds, u, v) == inner_in_same_set(ds, u, v)

\* WithUnionFind::new_unionfind: unwrap() of the first vertex panics on a
\* graph without vertices
new_unionfind(gr) ==
    IF Len(vertices(gr)) = 0
    THEN [state |-> "panicked", parent |-> <<>>, rank |-> <<>>]
    ELSE LET v == vertices(gr)[1]
             ds == [state |-> "ok",
                    parent |-> vertex_prop(gr, v),
                    rank |-> vertex_prop(gr, 0)]
         IN make_sets(ds, vertices(gr), 1)

(***************************************************************************)
(* What a call hands to its caller.                                        *)
(***************************************************************************)
Out(op, err, a, b, val, graph) ==
    [op |-> op, err |-> err, a |-> a, b |-> b, val |-> val, graph |-> graph]

NoSub == [kind |-> "none", vertices |-> <<>>, edges |-> <<>>, inc |-> <<>>, input |-> <<>>]

NoUF == [state |-> "none", parent |-> <<>>, rank |-> <<>>]

NoProps ==
    [has_v |-> FALSE, vertex |-> <<>>, old_vertex |-> <<>>,
     has_e |-> FALSE, edge |-> <<>>, old_edge |-> <<>>, writes |-> 0]

Init ==
    /\ phase = "start"
    /\ V_bits = 0
    /\ E_bits = 0
    /\ g = EmptyGraph
    /\ capacity = 0
    /\ hint = 0
    /\ calls = <<>>
    /\ order = <<>>
    /\ out = Out("none", "none", 0, 0, 0, FALSE)
    /\ sub = NoSub
    /\ uf = NoUF
    /\ pairs = {}
    /\ props = NoProps

(***************************************************************************)
(* Builder.                                                                *)
(***************************************************************************)
\* Builder::new(num_vertices, num_edges) for StaticGraphGeneric<V, E>
Builder_new(vb, eb, n, num_edges_hint) ==
    /\ phase = "start"
    /\ hint' = num_edges_hint
    /\ V_bits' = vb
    /\ E_bits' = eb
    /\ IF is_valid(vb, n)
       THEN /\ phase' = "building"
            /\ g' = [num_vertices |-> n,
                     endvertices |-> <<>>,
                     inc |-> [i \in 1..n |-> <<>>]]
            /\ capacity' = 2 * num_edges_hint
            /\ out' = Out("new", "none", n, num_edges_hint, 0, FALSE)
       ELSE /\ phase' = "failed"
            /\ out' = Out("new", "CapacityExceeded", n, num_edges_hint, 0, FALSE)
            /\ UNCHANGED <<g, capacity>>
    /\ UNCHANGED <<calls, order, sub, uf, pairs, props>>

\* Builder::add_edge(u, v); indexing inc beyond its length panics
Builder_add_edge(u, v) ==
    /\ phase = "building"
    /\ calls' = Append(calls, <<u, v>>)
    /\ IF /\ to_usize(from_usize(V_bits, u)) < Len(g.inc)
          /\ to_usize(from_usize(V_bits, v)) < Len(g.inc)
       THEN /\ g' = add_edge(g, E_bits, from_usize(V_bits, u), from_usize(V_bits, v))
            /\ capacity' = Grow(Grow(capacity, Len(g.endvertices) + 1),
                                Len(g.endvertices) + 2)
            /\ out' = Out("add_edge", "none", u, v, 0, FALSE)
            /\ UNCHANGED phase
       ELSE /\ phase' = "failed"
            /\ out' = Out("add_edge", "IndexOutOfBounds", u, v, 0, FALSE)
            /\ UNCHANGED <<g, capacity>>
    /\ UNCHANGED <<V_bits, E_bits, hint, order, sub, uf, pairs, props>>

\* Builder::finalize
Builder_finalize ==
    /\ phase = "building"
    /\ IF is_valid(E_bits, Len(g.endvertices))
       THEN /\ phase' = "final"
            /\ out' = Out("finalize", "none", 0, 0, 0, TRUE)
       ELSE /\ phase' = "failed"
            /\ out' = Out("finalize", "CapacityExceeded", 0, 0, 0, FALSE)
    /\ UNCHANGED <<V_bits, E_bits, g, capacity, hint, calls, order, sub, uf, pairs, props>>

\* Builder::finalize_ (finalize_with_order)
Builder_finalize_ ==
    /\ phase = "building"
    /\ IF is_valid(E_bits, Len(g.endvertices))
       THEN /\ phase' = "final"
            /\ order' = <<vertices(g), edges(g, E_bits)>>
            /\ out' = Out("finalize_", "none", 0, 0, 0, TRUE)
       ELSE /\ phase' = "failed"
            /\ out' = Out("finalize_", "CapacityExceeded", 0, 0, 0, FALSE)
            /\ UNCHANGED order
    /\ UNCHANGED <<V_bits, E_bits, g, capacity, hint, calls, sub, uf, pairs, props>>

\* the identifiers of a graph: both directions of every canonical edge
EdgeIds(gr) == 0..(Len(gr.endvertices) - 1)

VertexIds(gr) == 0..(gr.num_vertices - 1)

\* g.reverse(e) on the finalized graph
Call_reverse(e) ==
    /\ phase = "final"
    /\ out' = Out("reverse", "none", e, 0, StaticEdge_reverse(E_bits, e), FALSE)
    /\ UNCHANGED <<phase, V_bits, E_bits, g, capacity, hint, calls, order, sub, uf, pairs, props>>

New ==
    \E vb \in VWidths, eb \in EWidths, n \in 0..MaxN, h \in 0..MaxHint :
        Builder_new(vb, eb, n, h)

AddEdge ==
    /\ Len(calls) < MaxEdges
    /\ \E u \in VertexIds(g), v \in VertexIds(g) : Builder_add_edge(u, v)

Finalize == Builder_finalize

FinalizeWithOrder == Builder_finalize_

Reverse == \E e \in EdgeIds(g) : Call_reverse(e)

Next ==
    \/ New
    \/ AddEdge
    \/ Finalize
    \/ FinalizeWithOrder
    \/ Reverse

Spec == Init /\ [][Next]_vars

(***************************************************************************)
(* Subgraphs of a finalized graph.                                         *)
(***************************************************************************)
\* the sequences over S of length at most n
SeqsUpTo(S, n) == UNION {[1..k -> S] : k \in 0..n}

Call_spanning_subgraph(es) ==
    /\ phase = "final"
    /\ sub.kind = "none"
    /\ sub' = spanning_subgraph(g, E_bits, es)
    /\ out' = Out("spanning_subgraph", "none", 0, 0, 0, FALSE)
    /\ UNCHANGED <<phase, V_bits, E_bits, g, capacity, hint, calls, order, uf, pairs, props>>

Call_edge_induced_subgraph(es) ==
    /\ phase = "final"
    /\ sub.kind = "none"
    /\ sub' = edge_induced_subgraph(g, E_bits, es)
    /\ out' = Out("edge_induced_subgraph", "none", 0, 0, 0, FALSE)
    /\ UNCHANGED <<phase, V_bits, E_bits, g, capacity, hint, calls, order, uf, pairs, props>>

Call_induced_subgraph(vs) ==
    /\ phase = "final"
    /\ sub.kind = "none"
    /\ sub' = induced_subgraph(g, vs)
    /\ out' = Out("induced_subgraph", "none", 0, 0, 0, FALSE)
    /\ UNCHANGED <<phase, V_bits, E_bits, g, capacity, hint, calls, order, uf, pairs, props>>

\* the base graphs have 2-bit vertex identifiers: at most two vertices
NewBase == \E eb \in EWidths, n \in 0..MaxN : Builder_new(2, eb, n, 0)

AddEdgeBase ==
    /\ Len(calls) < MaxSubEdges
    /\ \E u \in VertexIds(g), v \in VertexIds(g) : Builder_add_edge(u, v)

Spanning == \E es \in SeqsUpTo(EdgeIds(g), MaxSubLen) : Call_spanning_subgraph(es)

EdgeInduced == \E es \in SeqsUpTo(EdgeIds(g), MaxSubLen) : Call_edge_induced_subgraph(es)

Induced == \E vs \in SeqsUpTo(VertexIds(g), MaxSubLen) : Call_induced_subgraph(vs)

NextSub ==
    \/ NewBase
    \/ AddEdgeBase
    \/ Finalize
    \/ Spanning
    \/ EdgeInduced
    \/ Induced

SpecSub == Init /\ [][NextSub]_vars

(***************************************************************************)
(* A union-find over a finalized graph.                                    *)
(***************************************************************************)
Call_new_unionfind ==
    /\ phase = "final"
    /\ uf.state = "none"
    /\ uf' = new_unionfind(g)
    /\ pairs' = {}
    /\ out' = Out("new_unionfind", IF uf'.state = "panicked" THEN "panic" ELSE "none",
                  0, 0, 0, FALSE)
    /\ UNCHANGED <<phase, V_bits, E_bits, g, capacity, hint, calls, order, sub, props>>

Call_union(u, v) ==
    /\ uf.state = "ok"
    /\ Cardinality(pairs \cup {{u, v}}) <= MaxUnions
    /\ uf' = union(uf, u, v)
    /\ pairs' = pairs \cup {{u, v}}
    /\ out' = Out("union", "none", u, v, 0, FALSE)
    /\ UNCHANGED <<phase, V_bits, E_bits, g, capacity, hint, calls, order, sub, props>>

Call_in_same_set(u, v) ==
    /\ uf.state = "ok"
    /\ LET r == in_same_set(uf, u, v)
       IN /\ uf' = r.ds
          /\ out' = Out("in_same_set", "none", u, v, IF r.val THEN 1 ELSE 0, FALSE)
    /\ UNCHANGED <<phase, V_bits, E_bits, g, capacity, hint, calls, order, sub, pairs, props>>

Call_reset ==
    /\ uf.state = "ok"
    /\ uf' = reset(uf, g)
    /\ pairs' = {}
    /\ out' = Out("reset", "none", 0, 0, 0, FALSE)
    /\ UNCHANGED <<phase, V_bits, E_bits, g, capacity, hint, calls, order, sub, props>>

\* graph!(StaticGraph, n): a graph of n vertices and no edge
NewVertices == \E n \in 0..MaxUFN : Builder_new(3, 4, n, 0)

NewUnionFind == Call_new_unionfind

Union == \E u \in VertexIds(g), v \in VertexIds(g) : Call_union(u, v)

InSameSet == \E u \in VertexIds(g), v \in VertexIds(g) : Call_in_same_set(u, v)

Reset == Call_reset

NextUF ==
    \/ NewVertices
    \/ Finalize
    \/ NewUnionFind
    \/ Union
    \/ InSameSet
    \/ Reset

SpecUF == Init /\ [][NextUF]_vars

(***************************************************************************)
(* The builder called with arguments at the limits of the vertex width.    *)
(***************************************************************************)
NewLimits == \E vb \in VWidths, eb \in EWidths, n \in 0..MaxN : Builder_new(vb, eb, n, 0)

\* the vertices, the sentinel of the width and the first value beyond it
AddEdgeLimits ==
    /\ Len(calls) < MaxEdges
    /\ \E u \in VertexIds(g) \cup {max(V_bits), max(V_bits) + 1},
          v \in VertexIds(g) \cup {max(V_bits), max(V_bits) + 1} :
          Builder_add_edge(u, v)

NextLimits ==
    \/ NewLimits
    \/ AddEdgeLimits
    \/ Finalize
    \/ FinalizeWithOrder

SpecLimits == Init /\ [][NextLimits]_vars

(***************************************************************************)
(* Property maps of a finalized graph.                                     *)
(***************************************************************************)
Call_vertex_prop(value) ==
    /\ phase = "final"
    /\ ~props.has_v
    /\ props.writes = 0
    /\ props' = [props EXCEPT !.has_v = TRUE,
                              !.vertex = vertex_prop(g, value),
                              !.old_vertex = vertex_prop(g, value)]
    /\ out' = Out("vertex_prop", "none", value, 0, 0, FALSE)
    /\ UNCHANGED <<phase, V_bits, E_bits, g, capacity, hint, calls, order, sub, uf, pairs>>

Call_edge_prop(value) ==
    /\ phase = "final"
    /\ ~props.has_e
    /\ props' = [props EXCEPT !.has_e = TRUE,
                              !.edge = edge_prop(g, value),
                              !.old_edge = edge_prop(g, value)]
    /\ out' = Out("edge_prop", "none", value, 0, 0, FALSE)
    /\ UNCHANGED <<phase, V_bits, E_bits, g, capacity, hint, calls, order, sub, uf, pairs>>

\* prop[e] = x on the edge map: the projection of e, then the slot
Call_write_edge(e, x) ==
    /\ phase = "final"
    /\ props.has_e
    /\ props.writes < MaxWrites
    /\ LET r == VecProp_set(props.edge, edge_index(e), x)
       IN /\ props' = [props EXCEPT !.edge = r.values,
                                    !.old_edge = props.edge,
                                    !.old_vertex = props.vertex,
                                    !.writes = @ + 1]
          /\ out' = Out("write_edge", r.err, e, x, 0, FALSE)
    /\ UNCHANGED <<phase, V_bits, E_bits, g, capacity, hint, calls, order, sub, uf, pairs>>

VertexProp == \E value \in Values : Call_vertex_prop(value)

EdgeProp == \E value \in Values : Call_edge_prop(value)

WriteEdge == \E e \in EdgeIds(g), x \in Values : Call_write_edge(e, x)

NextProps ==
    \/ NewBase
    \/ AddEdgeBase
    \/ Finalize
    \/ VertexProp
    \/ EdgeProp
    \/ WriteEdge

SpecProps == Init /\ [][NextProps]_vars

(***************************************************************************)
(* Property maps requested through a subgraph.                             *)
(***************************************************************************)
Call_sub_default_vertex_prop(value) ==
    /\ sub.kind /= "none"
    /\ props = NoProps
    /\ props' = [props EXCEPT !.has_v = TRUE,
                              !.vertex = Subgraph_default_vertex_prop(sub, g, value),
                              !.old_vertex = Subgraph_default_vertex_prop(sub, g, value)]
    /\ out' = Out("sub_default_vertex_prop", "none", value, 0, 0, FALSE)
    /\ UNCHANGED <<phase, V_bits, E_bits, g, capacity, hint, calls, order, sub, uf, pairs>>

Call_sub_default_edge_prop(value) ==
    /\ sub.kind /= "none"
    /\ props = NoProps
    /\ props' = [props EXCEPT !.has_e = TRUE,
                              !.edge = Subgraph_default_edge_prop(sub, g, value),
                              !.old_edge = Subgraph_default_edge_prop(sub, g, value)]
    /\ out' = Out("sub_default_edge_prop", "none", value, 0, 0, FALSE)
    /\ UNCHANGED <<phase, V_bits, E_bits, g, capacity, hint, calls, order, sub, uf, pairs>>

Call_sub_new_vertex_prop(value) ==
    /\ sub.kind /= "none"
    /\ props = NoProps
    /\ props' = [props EXCEPT !.has_v = TRUE,
                              !.vertex = Subgraph_new_vertex_prop(sub, g, value),
                              !.old_vertex = Subgraph_new_vertex_prop(sub, g, value)]
    /\ out' = Out("sub_new_vertex_prop", "none", value, 0, 0, FALSE)
    /\ UNCHANGED <<phase, V_bits, E_bits, g, capacity, hint, calls, order, sub, uf, pairs>>

Call_sub_new_edge_prop(value) ==
    /\ sub.kind /= "none"
    /\ props = NoProps
    /\ props' = [props EXCEPT !.has_e = TRUE,
                              !.edge = Subgraph_new_edge_prop(sub, g, value),
                              !.old_edge = Subgraph_new_edge_prop(sub, g, value)]
    /\ out' = Out("sub_new_edge_prop", "none", value, 0, 0, FALSE)
    /\ UNCHANGED <<phase, V_bits, E_bits, g, capacity, hint, calls, order, sub, uf, pairs>>

SubDefaultVertexProp == \E value \in Values : Call_sub_default_vertex_prop(value)

SubDefaultEdgeProp == \E value \in Values : Call_sub_default_edge_prop(value)

SubNewVertexProp == \E value \in Values : Call_sub_new_vertex_prop(value)

SubNewEdgeProp == \E value \in Values : Call_sub_new_edge_prop(value)

NextSubProps ==
    \/ NewBase
    \/ AddEdgeBase
    \/ Finalize
    \/ Spanning
    \/ EdgeInduced
    \/ Induced
    \/ SubDefaultVertexProp
    \/ SubDefaultEdgeProp
    \/ SubNewVertexProp
    \/ SubNewEdgeProp

SpecSubProps == Init /\ [][NextSubProps]_vars

(***************************************************************************)
(* Properties of the builder and of the static graph.                      *)
(***************************************************************************)
Built == phase \in {"building", "final"}

\* every identifier pushed so far fits the edge width: 2k - 1 <= max
IdsFit == Len(calls) = 0 \/ 2 * Len(calls) - 1 <= max(E_bits)

IncOf(w) == At(g.inc, w)

\* C1 as stated: in every state reachable through the builder, every
\* identifier in incidence[v] has target v.
C1_IncidenceTarget ==
    Built => \A v \in VertexIds(g) : \A i \in 1..Len(IncOf(v)) :
                target(g, IncOf(v)[i]) = v

\* C1 amended: while every identifier pushed fits the edge width (as it does
\* in every graph finalize returns), every identifier in incidence[v] has
\* source v, and its target is the other endpoint given to add_edge.
C1_IncidenceSource ==
    (Built /\ IdsFit) =>
        \A v \in VertexIds(g) : \A i \in 1..Len(IncOf(v)) :
            LET e == IncOf(v)[i]
                c == calls[to_index(e) + 1]
            IN /\ source(g, e) = v
               /\ target(g, e) = IF e % 2 = 1 THEN c[2] ELSE c[1]

C1_Witness ==
    /\ phase = "final"
    /\ \E v \in VertexIds(g) : \E i \in 1..Len(IncOf(v)) :
          /\ source(g, IncOf(v)[i]) = v
          /\ target(g, IncOf(v)[i]) /= v

RECURSIVE Flatten(_)
Flatten(cs) ==
    IF cs = <<>> THEN <<>>
    ELSE Flatten(SubSeq(cs, 1, Len(cs) - 1)) \o <<cs[Len(cs)][1], cs[Len(cs)][2]>>

\* the identifiers the calls cs give vertex w: 2j+1 for u_j = w, 2j for v_j = w
RECURSIVE ExpectedInc(_, _)
ExpectedInc(cs, w) ==
    IF cs = <<>> THEN <<>>
    ELSE LET j == Len(cs) - 1
             c == cs[Len(cs)]
         IN ExpectedInc(SubSeq(cs, 1, j), w)
              \o (IF c[1] = w THEN <<2 * j + 1>> ELSE <<>>)
              \o (IF c[2] = w THEN <<2 * j>> ELSE <<>>)

C2_Shape ==
    /\ g.endvertices = Flatten(calls)
    /\ Len(g.endvertices) = 2 * Len(calls)
    /\ \A w \in VertexIds(g) : IncOf(w) = ExpectedInc(calls, w)

C3_Reverse ==
    /\ phase = "final" =>
          \A e \in EdgeIds(g) :
             LET r == StaticEdge_reverse(E_bits, e)
             IN /\ r \in EdgeIds(g)
                /\ r /= e
                /\ StaticEdge_reverse(E_bits, r) = e
                /\ to_index(r) = to_index(e)
                /\ StaticEdge_eq(r, e)
                /\ source(g, r) = target(g, e)
                /\ target(g, r) = source(g, e)
    /\ out.op = "reverse" =>
          /\ to_index(out.val) = to_index(out.a)
          /\ out.val /= out.a
          /\ <<source(g, out.val), target(g, out.val)>>
                = <<calls[to_index(out.a) + 1][IF out.a % 2 = 1 THEN 2 ELSE 1],
                    calls[to_index(out.a) + 1][IF out.a % 2 = 1 THEN 1 ELSE 2]>>

C3_Witness ==
    /\ out.op = "reverse"
    /\ out.a % 2 = 1
    /\ out.a > 1
    /\ source(g, out.a) /= target(g, out.a)
    /\ source(g, out.val) = target(g, out.a)

\* C4: new fails with CapacityExceeded exactly when num_vertices is not below
\* the maximum of the vertex width, finalize and finalize_ exactly when
\* 2 * num_edges is not below the maximum of the edge width; a failing call
\* returns no graph and every other finalize returns it.
C4_Capacity ==
    /\ out.op = "new" =>
          /\ (out.err = "CapacityExceeded") <=> ~(out.a < (2 ^ V_bits) - 1)
          /\ out.err \in {"none", "CapacityExceeded"}
          /\ ~out.graph
          /\ (out.err = "CapacityExceeded") => (phase = "failed" /\ g = EmptyGraph)
          /\ (out.err = "none") => phase = "building"
    /\ out.op \in {"finalize", "finalize_"} =>
          /\ (out.err = "CapacityExceeded") <=> ~(2 * Len(calls) < (2 ^ E_bits) - 1)
          /\ out.err \in {"none", "CapacityExceeded"}
          /\ out.graph <=> (out.err = "none")
          /\ out.graph <=> (phase = "final")
          /\ (out.err = "CapacityExceeded") => (phase = "failed" /\ order = <<>>)

C4_Witness ==
    /\ out.op \in {"finalize", "finalize_"}
    /\ out.err = "CapacityExceeded"
    /\ 2 * Len(calls) = (2 ^ E_bits)
    /\ ~out.graph

(***************************************************************************)
(* Properties of the Basic interface and of subgraphs.                     *)
(***************************************************************************)
\* the endpoints add_edge was given for the identifier e, as (source, target)
GivenEnds(e) ==
    LET c == calls[(e \div 2) + 1]
    IN IF e % 2 = 1 THEN <<c[1], c[2]>> ELSE <<c[2], c[1]>>

OppositeAsStated(r, u, e) ==
    LET s == GivenEnds(e)[1]
        t == GivenEnds(e)[2]
    IN /\ u = s => r = [err |-> "none", val |-> t]
       /\ (u = t /\ u /= s) => r = [err |-> "none", val |-> s]
       /\ (u /= s /\ u /= t) => (r.err = "InvalidArgument" /\ r.val \notin VertexIds(g))
       /\ r.err = "none" => opposite(g, r.val, e) = [err |-> "none", val |-> u]

\* C6: opposite(u, e) is the other endpoint of e (u itself for a self-loop),
\* opposite(opposite(u, e), e) = u, and it fails with InvalidArgument when u
\* is no endpoint of e; on a static graph and on every subgraph of it.
C6_Opposite ==
    phase = "final" =>
        \A u \in VertexIds(g), e \in EdgeIds(g) :
            /\ OppositeAsStated(opposite(g, u, e), u, e)
            /\ sub.kind /= "none" => OppositeAsStated(Subgraph_opposite(sub, g, u, e), u, e)

C6_Witness ==
    /\ sub.kind /= "none"
    /\ \E u \in VertexIds(g), e \in EdgeIds(g) :
          Subgraph_opposite(sub, g, u, e).err = "InvalidArgument"
    /\ \E u \in VertexIds(g), e \in EdgeIds(g) :
          /\ Subgraph_opposite(sub, g, u, e).err = "none"
          /\ Subgraph_opposite(sub, g, u, e).val /= u
          /\ u = target(g, e)
    /\ \E u \in VertexIds(g), e \in EdgeIds(g) :
          Subgraph_opposite(sub, g, u, e) = [err |-> "none", val |-> u]

Range(sq) == {sq[i] : i \in 1..Len(sq)}

\* how many elements of sq the canonical edge j has
CountCanonical(sq, j) == Cardinality({i \in 1..Len(sq) : sq[i] \div 2 = j})

\* C7: the edges of induced_subgraph(vertices) are the base edges with both
\* endpoints in the given sequence, each canonical edge once, and no other.
C7_InducedEdges ==
    sub.kind = "induced" =>
        /\ \A j \in 0..(Len(calls) - 1) :
              CountCanonical(Subgraph_edges(sub), j) =
                 IF calls[j + 1][1] \in Range(sub.input) /\ calls[j + 1][2] \in Range(sub.input)
                 THEN 1 ELSE 0
        /\ Range(Subgraph_edges(sub)) \subseteq EdgeIds(g)
        /\ Subgraph_vertices(sub) = sub.input

C7_Witness ==
    /\ sub.kind = "induced"
    /\ Len(calls) >= 2
    /\ Len(Subgraph_edges(sub)) >= 1
    /\ Len(Subgraph_edges(sub)) < Len(calls)
    /\ \E j \in 1..Len(calls) : calls[j][1] = calls[j][2] /\ calls[j][1] \in Range(sub.input)

\* what the edge list es gives the incidence of w: e for source(e) = w, then
\* reverse(e) for target(e) = w, in list order
RECURSIVE ExpectedSubInc(_, _)
ExpectedSubInc(es, w) ==
    IF es = <<>> THEN <<>>
    ELSE LET e == es[Len(es)]
         IN ExpectedSubInc(SubSeq(es, 1, Len(es) - 1), w)
              \o (IF GivenEnds(e)[1] = w THEN <<e>> ELSE <<>>)
              \o (IF GivenEnds(e)[2] = w
                  THEN <<IF e % 2 = 1 THEN e - 1 ELSE e + 1>> ELSE <<>>)

\* C8: spanning_subgraph(edges) has all the vertices of g in g's order, the
\* given edge list, and the incidence of w is e for each given e with source w
\* and reverse(e) for each given e with target w, in list order; a vertex
\* touched by no given edge has degree 0.
C8_Spanning ==
    sub.kind = "spanning" =>
        /\ Subgraph_vertices(sub) = [i \in 1..g.num_vertices |-> i - 1]
        /\ Subgraph_edges(sub) = sub.input
        /\ \A w \in VertexIds(g) :
              /\ Subgraph_inc_edges(sub, w) = ExpectedSubInc(sub.input, w)
              /\ (\A i \in 1..Len(sub.input) : w \notin Range(GivenEnds(sub.input[i])))
                    => Subgraph_degree(sub, w) = 0

C8_Witness ==
    /\ sub.kind = "spanning"
    /\ Len(sub.input) = 2
    /\ \E w \in VertexIds(g) : Subgraph_degree(sub, w) = 0
    /\ \E w \in VertexIds(g) : Len(Subgraph_inc_edges(sub, w)) >= 2
                               /\ Subgraph_inc_edges(sub, w)[1] /= Subgraph_inc_edges(sub, w)[2]

\* the endpoints of the edge list es, source before target, in list order
RECURSIVE EndpointList(_)
EndpointList(es) ==
    IF es = <<>> THEN <<>>
    ELSE EndpointList(SubSeq(es, 1, Len(es) - 1)) \o GivenEnds(es[Len(es)])

FirstAt(sq, x) == CHOOSE i \in 1..Len(sq) : sq[i] = x /\ \A k \in 1..(i - 1) : sq[k] /= x

NoRepeat(sq) == \A i, k \in 1..Len(sq) : sq[i] = sq[k] => i = k

\* C9: the vertices of edge_induced_subgraph(edges) are the endpoints of the
\* given edges, each once, in first-seen order (source before target), and
\* no other vertex.
C9_EdgeInducedVertices ==
    sub.kind = "edge_induced" =>
        LET vs == Subgraph_vertices(sub)
            ep == EndpointList(sub.input)
        IN /\ Range(vs) = Range(ep)
           /\ NoRepeat(vs)
           /\ \A i, k \in 1..Len(vs) : i < k => FirstAt(ep, vs[i]) < FirstAt(ep, vs[k])

C9_Witness ==
    /\ sub.kind = "edge_induced"
    /\ Len(sub.input) = 2
    /\ Len(Subgraph_vertices(sub)) = 2
    /\ Subgraph_vertices(sub)[1] > Subgraph_vertices(sub)[2]
    /\ g.num_vertices > 2 \/ Len(EndpointList(sub.input)) = 4

NoRepeatCanonical(sq) == \A i, k \in 1..Len(sq) : sq[i] \div 2 = sq[k] \div 2 => i = k

StaticEnumerates ==
    /\ Len(vertices(g)) = num_vertices(g)
    /\ NoRepeat(vertices(g))
    /\ Range(vertices(g)) = VertexIds(g)
    /\ Len(edges(g, E_bits)) = num_edges(g)
    /\ num_edges(g) = Len(calls)
    /\ NoRepeatCanonical(edges(g, E_bits))
    /\ {edges(g, E_bits)[i] \div 2 : i \in 1..num_edges(g)} = 0..(Len(calls) - 1)

SubEnumerates ==
    /\ Len(Subgraph_vertices(sub)) = Subgraph_num_vertices(sub)
    /\ NoRepeat(Subgraph_vertices(sub))
    /\ Len(Subgraph_edges(sub)) = Subgraph_num_edges(sub)
    /\ NoRepeatCanonical(Subgraph_edges(sub))

\* C10 as stated: vertices() and edges() of a finalized static graph and of
\* a subgraph built from any input sequence yield each vertex and each edge
\* exactly once, num_vertices() and num_edges() of them.
C10_EnumerateOnce ==
    /\ phase = "final" => StaticEnumerates
    /\ sub.kind /= "none" => SubEnumerates

\* C10 amended: the same for the static graph, and for a subgraph built from
\* an input sequence without repetition (no vertex twice, no two identifiers
\* of the same canonical edge).
C10_EnumerateOnceDistinctInput ==
    /\ phase = "final" => StaticEnumerates
    /\ (sub.kind = "induced" /\ NoRepeat(sub.input)) => SubEnumerates
    /\ (sub.kind \in {"spanning", "edge_induced"} /\ NoRepeatCanonical(sub.input))
          => SubEnumerates

C10_Witness ==
    /\ sub.kind = "induced"
    /\ NoRepeat(sub.input)
    /\ Len(sub.input) = 2
    /\ Len(Subgraph_edges(sub)) = 2
    /\ \E i \in 1..2 : source(g, Subgraph_edges(sub)[i]) /= target(g, Subgraph_edges(sub)[i])

(***************************************************************************)
(* Properties of the union-find.                                           *)
(***************************************************************************)
\* the vertices related to a by the pairs in ps, in at most n steps
RECURSIVE Reach(_, _, _)
Reach(ps, S, n) ==
    IF n = 0 THEN S
    ELSE Reach(ps, S \cup {w \in VertexIds(g) : \E x \in S : {x, w} \in ps}, n - 1)

\* the reflexive-symmetric-transitive closure of the pairs given to union
Related(a, b) == b \in Reach(pairs, {a}, g.num_vertices)

\* C5: in_same_set(a, b) is true iff a and b are related by the closure of
\* the pairs passed to union since the last reset (or since creation);
\* so in_same_set and a union inside one set, which leave that closure as it
\* is, leave the partition as it is, and right after reset only a = b are in
\* the same set.
C5_Partition ==
    uf.state = "ok" =>
        /\ \A a \in VertexIds(g), b \in VertexIds(g) :
              in_same_set(uf, a, b).val <=> Related(a, b)
        /\ out.op = "in_same_set" => ((out.val = 1) <=> Related(out.a, out.b))
        /\ out.op = "reset" =>
              /\ pairs = {}
              /\ \A a \in VertexIds(g), b \in VertexIds(g) :
                    in_same_set(uf, a, b).val <=> (a = b)

C5_Witness ==
    /\ uf.state = "ok"
    /\ out.op = "in_same_set"
    /\ out.val = 1
    /\ out.a /= out.b
    /\ {out.a, out.b} \notin pairs
    /\ Cardinality(pairs) = 2

(***************************************************************************)
(* The sentinel of a width.                                                *)
(***************************************************************************)
SomeVertex(x) == x /= 2 ^ V_bits - 1 /\ to_option(V_bits, x) = [some |-> TRUE, val |-> x]

SomeEdge(x) == x /= 2 ^ E_bits - 1 /\ to_option(E_bits, x) = [some |-> TRUE, val |-> x]

\* C13: in a graph finalize or finalize_ returns, no vertex of vertices(), no
\* stored endpoint, no identifier of edges() or inc_edges(v) and no reverse
\* of such an identifier is the sentinel (the maximum of its width), also
\* with arguments and edge counts at the limit of the width.
C13_NoSentinel ==
    phase = "final" =>
        /\ \A i \in 1..Len(vertices(g)) : SomeVertex(vertices(g)[i])
        /\ \A i \in 1..Len(g.endvertices) : SomeVertex(g.endvertices[i])
        /\ \A i \in 1..Len(edges(g, E_bits)) :
              /\ SomeEdge(edges(g, E_bits)[i])
              /\ SomeEdge(StaticEdge_reverse(E_bits, edges(g, E_bits)[i]))
        /\ \A v \in VertexIds(g) : \A i \in 1..Len(inc_edges(g, v)) :
              /\ SomeEdge(inc_edges(g, v)[i])
              /\ SomeEdge(StaticEdge_reverse(E_bits, inc_edges(g, v)[i]))
        /\ order /= <<>> =>
              /\ \A i \in 1..Len(order[1]) : SomeVertex(order[1][i])
              /\ \A i \in 1..Len(order[2]) : SomeEdge(order[2][i])

C13_Witness ==
    /\ phase = "final"
    /\ order /= <<>>
    /\ g.num_vertices = max(V_bits) - 1
    /\ Len(g.endvertices) = max(E_bits) - 1
    /\ \E j \in 1..Len(calls) : calls[j][1] = max(V_bits) + 1

(***************************************************************************)
(* Neighbors.                                                              *)
(***************************************************************************)
\* ns lists, for the incident edges es of v in their order, the target of
\* each edge, which is the endpoint opposite to v
NeighborsAsStated(ns, es, v) ==
    /\ Len(ns) = Len(es)
    /\ \A i \in 1..Len(es) :
          /\ ns[i] = target(g, es[i])
          /\ ns[i] = GivenEnds(es[i])[2]
          /\ v = GivenEnds(es[i])[1]
          /\ opposite(g, v, es[i]) = [err |-> "none", val |-> ns[i]]
          /\ ns[i] = v <=> calls[to_index(es[i]) + 1][1] = calls[to_index(es[i]) + 1][2]

\* C14: neighbors(v) yields, in the order of inc_edges(v), the target of each
\* incident edge, and that vertex is the endpoint opposite to v (v itself
\* only for a self-loop); on a static graph and on every subgraph of it.
C14_Neighbors ==
    phase = "final" =>
        /\ \A v \in VertexIds(g) : NeighborsAsStated(neighbors(g, v), inc_edges(g, v), v)
        /\ sub.kind /= "none" =>
              \A v \in Range(Subgraph_vertices(sub)) :
                  NeighborsAsStated(Subgraph_neighbors(sub, g, v), Subgraph_inc_edges(sub, v), v)

C14_Witness ==
    /\ sub.kind /= "none"
    /\ \E v \in Range(Subgraph_vertices(sub)) :
          /\ Len(Subgraph_neighbors(sub, g, v)) >= 2
          /\ \E i \in 1..Len(Subgraph_neighbors(sub, g, v)) : Subgraph_neighbors(sub, g, v)[i] = v
          /\ \E i \in 1..Len(Subgraph_neighbors(sub, g, v)) : Subgraph_neighbors(sub, g, v)[i] /= v
          /\ Subgraph_neighbors(sub, g, v) /= neighbors(g, v)

(***************************************************************************)
(* Consistency of a subgraph's incidence with its edges.                   *)
(***************************************************************************)
\* the number of ends the canonical edge j has at w
EndsAt(j, w) ==
    (IF calls[j + 1][1] = w THEN 1 ELSE 0) + (IF calls[j + 1][2] = w THEN 1 ELSE 0)

\* the canonical edge j is equal to a member of edges()
Retained(j) == CountCanonical(Subgraph_edges(sub), j) > 0

\* the ends at w of the retained canonical edges below k
RECURSIVE RetainedEndsAt(_, _)
RetainedEndsAt(k, w) ==
    IF k = 0 THEN 0
    ELSE RetainedEndsAt(k - 1, w) + (IF Retained(k - 1) THEN EndsAt(k - 1, w) ELSE 0)

RECURSIVE SumDegrees(_)
SumDegrees(S) ==
    IF S = {} THEN 0
    ELSE LET w == CHOOSE x \in S : TRUE
         IN Subgraph_degree(sub, w) + SumDegrees(S \ {w})

IncidenceConsistent ==
    /\ \A w \in Range(Subgraph_vertices(sub)) :
          /\ \A i \in 1..Len(Subgraph_inc_edges(sub, w)) :
                /\ Retained(to_index(Subgraph_inc_edges(sub, w)[i]))
                /\ Subgraph_source(sub, g, Subgraph_inc_edges(sub, w)[i]) = w
                /\ GivenEnds(Subgraph_inc_edges(sub, w)[i])[1] = w
          /\ \A j \in 0..(Len(calls) - 1) :
                Retained(j) => CountCanonical(Subgraph_inc_edges(sub, w), j) = EndsAt(j, w)
          /\ Subgraph_degree(sub, w) = RetainedEndsAt(Len(calls), w)
    /\ SumDegrees(Range(Subgraph_vertices(sub))) = 2 * Subgraph_num_edges(sub)

\* C16 as stated: in a subgraph built from any input sequence, inc_edges(w)
\* of every vertex w of the subgraph yields only retained edges, each with
\* source w, every retained edge once per end it has at w; degree(w) is the
\* number of retained edge ends at w and the degrees of the distinct
\* vertices sum to 2 * num_edges().
C16_IncidenceAnyInput == sub.kind /= "none" => IncidenceConsistent

\* C16 amended: the same for a subgraph built from an input sequence without
\* repetition (no vertex twice, no two identifiers of the same canonical
\* edge).
C16_IncidenceDistinctInput ==
    /\ (sub.kind = "induced" /\ NoRepeat(sub.input)) => IncidenceConsistent
    /\ (sub.kind \in {"spanning", "edge_induced"} /\ NoRepeatCanonical(sub.input))
          => IncidenceConsistent

C16_Witness ==
    /\ sub.kind = "induced"
    /\ NoRepeat(sub.input)
    /\ Subgraph_num_edges(sub) = 1
    /\ \E w \in Range(Subgraph_vertices(sub)) :
          /\ Subgraph_degree(sub, w) = 2
          /\ degree(g, w) = 3

(***************************************************************************)
(* Creating a union-find.                                                  *)
(***************************************************************************)
\* C15: for every graph, a graph without vertices included, new_unionfind
\* completes and returns a union-find in which every vertex is a singleton
\* (parent[v] = v, rank[v] = 0), so that in_same_set(a, b) is true exactly
\* when a = b.
C15_NewUnionFindCompletes ==
    out.op = "new_unionfind" =>
        /\ out.err = "none"
        /\ uf.state = "ok"
        /\ Len(uf.parent) = num_vertices(g)
        /\ Len(uf.rank) = num_vertices(g)
        /\ \A v \in VertexIds(g) :
              /\ At(uf.parent, to_usize(v)) = v
              /\ At(uf.rank, to_usize(v)) = 0
        /\ \A a \in VertexIds(g), b \in VertexIds(g) :
              in_same_set(uf, a, b).val <=> (a = b)

(***************************************************************************)
(* Property maps.                                                          *)
(***************************************************************************)
\* what reading the edge map values through the identifier e returns
ReadEdge(values, e) == VecProp_get(values, edge_index(e))

\* C11: an edge property map made by edge_prop(value) has num_edges slots,
\* all equal to value; after writing x through an identifier e, reading
\* through e and through reverse(e) returns x, and reading through an edge
\* of another canonical index, or any slot of a vertex property map, returns
\* what it held before the write.
C11_EdgeProp ==
    /\ props.has_e => Len(props.edge) = Len(calls)
    /\ out.op = "edge_prop" =>
          \A e \in EdgeIds(g) : ReadEdge(props.edge, e) = [err |-> "none", val |-> out.a]
    /\ out.op = "write_edge" =>
          /\ out.err = "none"
          /\ ReadEdge(props.edge, out.a) = [err |-> "none", val |-> out.b]
          /\ ReadEdge(props.edge, StaticEdge_reverse(E_bits, out.a))
                = [err |-> "none", val |-> out.b]
          /\ \A f \in EdgeIds(g) :
                f \div 2 /= out.a \div 2
                   => /\ ReadEdge(props.edge, f).err = "none"
                      /\ ReadEdge(props.edge, f) = ReadEdge(props.old_edge, f)
          /\ props.vertex = props.old_vertex

C11_Witness ==
    /\ out.op = "write_edge"
    /\ props.has_v
    /\ Len(calls) = 2
    /\ props.writes = 2
    /\ out.a % 2 = 0
    /\ \E f \in EdgeIds(g) :
          /\ f \div 2 /= out.a \div 2
          /\ ReadEdge(props.edge, f).val /= out.b
          /\ ReadEdge(props.edge, f).val /= ReadEdge(props.old_edge, out.a).val
          /\ ReadEdge(props.old_edge, out.a).val /= out.b

\* C12: a vertex or edge property map requested through a subgraph, by
\* default_*_prop or new_*_prop, has one slot per vertex or edge of the base
\* graph, whatever the subgraph retains, every slot holds the given value,
\* and every vertex or edge of the base graph reads a slot of it.
C12_SubgraphProps ==
    /\ out.op \in {"sub_default_vertex_prop", "sub_new_vertex_prop"} =>
          /\ Len(props.vertex) = g.num_vertices
          /\ \A v \in VertexIds(g) :
                VecProp_get(props.vertex, to_usize(v)) = [err |-> "none", val |-> out.a]
    /\ out.op \in {"sub_default_edge_prop", "sub_new_edge_prop"} =>
          /\ Len(props.edge) = Len(calls)
          /\ \A e \in EdgeIds(g) :
                ReadEdge(props.edge, e) = [err |-> "none", val |-> out.a]

C12_Witness ==
    /\ out.op = "sub_default_vertex_prop"
    /\ out.a /= 0
    /\ sub.kind = "edge_induced"
    /\ Subgraph_num_vertices(sub) = 1
    /\ Subgraph_num_edges(sub) = 1
    /\ Len(props.vertex) = 2
    /\ Len(calls) = 2

====
